---- MODULE Spec2Model ----
(***************************************************************************)
(* Model of the dongguaTV CORS proxy in its two variants:                  *)
(*   - the Cloudflare Workers handler (handleRequest / handleProxyRequest) *)
(*   - the Node.js server (proxy-server.js, http.createServer handler),    *)
(* and of three parts taken on their own: rewriteM3u8 as a function        *)
(* (RewriteSpec), several requests in flight on one server (ConcSpec) and  *)
(* the service worker's fetch listener with its caches (SwSpec).           *)
(*                                                                         *)
(* Strings the code inspects (URLs, content types) are sequences of        *)
(* tokens, so that startsWith / endsWith / includes are computed on them.  *)
(* Header names are strings; toLowerCase is a table over the names used.   *)
(* Header values and bodies are token sequences.                           *)
(***************************************************************************)
EXTENDS Integers, Sequences, FiniteSets, TLC

VARIABLES
    variant,    \* "workers" | "node": which handler serves the request
    password,   \* Node: ACCESS_PASSWORD is configured (non-empty)
    req,        \* the inbound request: method, path, target (url parameter), headers,
                \* host (the Host header: <<>> when absent)
    pc,         \* position of the handler
    upReq,      \* the upstream request issued (NoReq until then)
    upState,    \* state of the upstream exchange
    upRes,      \* the upstream reply head (NoRes until the upstream replied)
    timer,      \* the 20 s timer: "unset" | "armed" | "cleared" | "fired"
    chunks,     \* playlist buffer (NoChunks unless the reply is being buffered)
    resHead,    \* response head sent to the client (NoRes until written)
    resBody,    \* response body written to the client
    resEnded,   \* the response has been completed
    rw,         \* rewriteM3u8 applied on its own: its arguments and its result
    tables,     \* the module-level objects CORS_HEADERS and EXCLUDE_HEADERS
    conns,      \* the requests a server is handling concurrently
    swStatic,   \* service worker: the entries of the cache STATIC_CACHE
    swImages,   \* service worker: the entries of IMAGE_CACHE, oldest first
    swEvent,    \* service worker: the fetch event being handled
    swStores,   \* service worker: the image stores begun and not yet finished
                \* (a cache.put and a trimImageCache call each)
    tmdbCache,  \* TMDB proxy: the entries of caches.default
    tmdbPuts,   \* TMDB proxy: the cache.put calls handed to ctx.waitUntil
    tmdbEvent   \* TMDB proxy: the request being handled

\* the service worker's state
swVars == <<swStatic, swImages, swEvent, swStores>>

\* the TMDB proxy's state
tmdbVars == <<tmdbCache, tmdbPuts, tmdbEvent>>

\* the variables the single-request handlers never touch
aux == <<rw, tables, conns, swVars, tmdbVars>>

vars == <<variant, password, req, pc, upReq, upState, upRes, timer, chunks,
          resHead, resBody, resEnded, aux>>

NoReq == [none |-> TRUE]
NoRes == [none |-> TRUE]
NoChunks == <<"none">>
NoRewrite == [none |-> TRUE]
NoEvent == [none |-> TRUE]

\* no service worker is installed
SwAbsent ==
    /\ swStatic = {}
    /\ swImages = <<>>
    /\ swEvent = NoEvent
    /\ swStores = <<>>

\* no TMDB proxy is deployed
TmdbAbsent ==
    /\ tmdbCache = {}
    /\ tmdbPuts = {}
    /\ tmdbEvent = NoEvent

----------------------------------------------------------------------------
(* String helpers                                                          *)

StartsWith(s, p) == Len(p) <= Len(s) /\ SubSeq(s, 1, Len(p)) = p

EndsWith(s, t) == Len(s) >= 1 /\ s[Len(s)] = t

Includes(s, p) ==
    \E i \in 1..(Len(s) - Len(p) + 1) : SubSeq(s, i, i + Len(p) - 1) = p

\* String.prototype.toLowerCase on the header names that occur
LowerTable ==
    [n \in {"Access-Control-Allow-Origin", "Access-Control-Allow-Methods",
            "Access-Control-Allow-Headers", "Access-Control-Expose-Headers",
            "Access-Control-Max-Age", "Content-Type", "Content-Length",
            "Referer", "Origin", "User-Agent", "Accept", "Range",
            "Accept-Language"} |->
        CASE n = "Access-Control-Allow-Origin" -> "access-control-allow-origin"
          [] n = "Access-Control-Allow-Methods" -> "access-control-allow-methods"
          [] n = "Access-Control-Allow-Headers" -> "access-control-allow-headers"
          [] n = "Access-Control-Expose-Headers" -> "access-control-expose-headers"
          [] n = "Access-Control-Max-Age" -> "access-control-max-age"
          [] n = "Content-Type" -> "content-type"
          [] n = "Content-Length" -> "content-length"
          [] n = "Referer" -> "referer"
          [] n = "Origin" -> "origin"
          [] n = "User-Agent" -> "user-agent"
          [] n = "Accept" -> "accept"
          [] n = "Range" -> "range"
          [] n = "Accept-Language" -> "accept-language"]

toLowerCase(n) == IF n \in DOMAIN LowerTable THEN LowerTable[n] ELSE n

----------------------------------------------------------------------------
(* URLs as token sequences: <<scheme, "//", host, path tokens..., query>>   *)

QueryTokens == {"?url=x", "?t=1"}

ValidHosts == {"proxy", "cdn"}

\* mutant: the scheme test accepts any scheme followed by //
MatchesHttpScheme_AnyScheme(s) == Len(s) >= 2 /\ s[2] = "//"

\* /^https?:\/\//i.test(s)
MatchesHttpScheme(s) == Len(s) >= 2 /\ s[1] \in {"http:", "https:"} /\ s[2] = "//"

\* new URL(s) succeeds: an absolute URL with a scheme and a valid host
URLParses(s) ==
    /\ Len(s) >= 3
    /\ s[1] \in {"http:", "https:", "ftp:"}
    /\ s[2] = "//"
    /\ s[3] \in ValidHosts

URLprotocol(s) == s[1]

URLorigin(s) == SubSeq(s, 1, 3)

\* pathname: the tokens after the host, up to the query
URLpathname(s) ==
    LET rest == SubSeq(s, 4, Len(s))
        isQ(i) == rest[i] \in QueryTokens
        cut == IF \E i \in 1..Len(rest) : isQ(i)
               THEN (CHOOSE i \in 1..Len(rest) : isQ(i) /\ \A j \in 1..(i-1) : ~isQ(j)) - 1
               ELSE Len(rest)
        p == SubSeq(rest, 1, cut)
    IN IF p = <<>> THEN <<"/">> ELSE p

\* the origin the proxy is served from (reqUrl.origin, `http://${req.headers.host}`)
ProxyOrigin == <<"http:", "//", "proxy">>

\* Node: `http://${req.headers.host}`: a missing header is spliced in as the
\* text "undefined"
NodeBase(host) == <<"http:", "//", IF host = <<>> THEN "undefined" ELSE host[1]>>

\* Node: new URL(req.url, base) throws when the base does not parse
NodeUrlThrows(host) == NodeBase(host)[3] \notin ValidHosts \cup {"undefined"}

----------------------------------------------------------------------------
(* Header tables                                                           *)

CORS_HEADERS ==
    ("Access-Control-Allow-Origin" :> <<"*">>) @@
    ("Access-Control-Allow-Methods" :> <<"GET, POST, PUT, DELETE, OPTIONS, HEAD">>) @@
    ("Access-Control-Allow-Headers" :> <<"Content-Type, Authorization, Range">>) @@
    ("Access-Control-Expose-Headers" :> <<"Content-Length, Content-Range">>) @@
    ("Access-Control-Max-Age" :> <<"86400">>)

\* mutant: the exclusion set lacks access-control-allow-origin
EXCLUDE_HEADERS_NoAllowOrigin ==
    {"access-control-allow-methods",
     "access-control-allow-headers", "access-control-expose-headers",
     "access-control-max-age", "access-control-allow-credentials",
     "content-encoding", "transfer-encoding", "connection", "keep-alive", "host"}

\* proxy-server.js: the names never copied from the upstream reply
EXCLUDE_HEADERS ==
    {"access-control-allow-origin", "access-control-allow-methods",
     "access-control-allow-headers", "access-control-expose-headers",
     "access-control-max-age", "access-control-allow-credentials",
     "content-encoding", "transfer-encoding", "connection", "keep-alive", "host"}

\* Workers: the set local to handleProxyRequest (the one the copy loop uses)
excludeHeaders ==
    {"access-control-allow-origin", "access-control-allow-methods",
     "access-control-allow-headers", "access-control-expose-headers",
     "access-control-max-age", "access-control-allow-credentials",
     "content-encoding", "transfer-encoding", "connection", "keep-alive"}

\* mutant: the copy list also names cookie
copyHeaders_WithCookie == <<"range", "accept", "accept-language", "cookie">>

\* Workers: the inbound headers copied to the upstream request
copyHeaders == <<"range", "accept", "accept-language">>

UserAgent == <<"Mozilla/5.0 (Windows NT 10.0; Win64; x64) AppleWebKit/537.36 (KHTML, like Gecko) Chrome/120.0.0.0 Safari/537.36">>

----------------------------------------------------------------------------
(* JavaScript objects and Headers                                          *)

\* {} : the object without keys
EmptyObj == <<>>

\* Object.keys(o)
Keys(o) == IF o = <<>> THEN {} ELSE DOMAIN o

\* o[k] = v on a plain object (keys are case-sensitive)
ObjSet(o, k, v) == [x \in Keys(o) \cup {k} |-> IF x = k THEN v ELSE o[x]]

\* delete o[k]
ObjDelete(o, k) == [x \in Keys(o) \ {k} |-> o[x]]

\* { ...a, ...b }: later keys win
ObjSpread(a, b) == [x \in Keys(a) \cup Keys(b) |-> IF x \in Keys(b) THEN b[x] ELSE a[x]]

\* Headers (fetch API): names are case-insensitive, stored lower-cased
HeadersOf(o) ==
    [k \in {toLowerCase(x) : x \in Keys(o)} |->
        o[CHOOSE x \in Keys(o) : toLowerCase(x) = k]]

HeadersSet(h, n, v) == ObjSet(h, toLowerCase(n), v)

HeadersDelete(h, n) == ObjDelete(h, toLowerCase(n))

HeadersHas(h, n) == toLowerCase(n) \in Keys(h)

\* the header lines an object or Headers puts on the wire: <<name, value>>
Wire(o) == {<<k, o[k]>> : k \in Keys(o)}

\* an object literal keeps insertion order: a sequence of <<key, value>>
OrdHas(o, k) == \E i \in 1..Len(o) : o[i][1] = k

OrdSet(o, k, v) ==
    IF OrdHas(o, k)
    THEN [i \in 1..Len(o) |-> IF o[i][1] = k THEN <<k, v>> ELSE o[i]]
    ELSE Append(o, <<k, v>>)

\* http.ClientRequest: setHeader(key, value) for each key of options.headers,
\* in order; the store is keyed by the lower-cased name and keeps [name, value]
RECURSIVE SetHeaderAll(_, _, _)
SetHeaderAll(o, i, store) ==
    IF i > Len(o) THEN store
    ELSE SetHeaderAll(o, i + 1, ObjSet(store, toLowerCase(o[i][1]), o[i]))

ClientRequestHeaders(o) ==
    LET store == SetHeaderAll(o, 1, EmptyObj)
    IN {store[k] : k \in Keys(store)}

----------------------------------------------------------------------------
(* Inputs                                                                  *)

Methods == {"GET", "OPTIONS"}

Paths == {"/", "/health"}

\* values of the url parameter
Targets ==
    { <<>>,                                                   \* absent / empty
      <<"not-a-url">>,
      <<"ftp:", "//", "cdn", "/", "a", ".m3u8">>,
      <<"http:", "//", "[">>,                                 \* http(s) prefix, does not parse
      <<"http:", "//", "proxy">>,                             \* the proxy's own origin
      <<"http:", "//", "proxy", "/", "?url=x">>,              \* own origin with a query
      <<"https:", "//", "cdn", "/", "v/", "a", ".m3u8">>,
      <<"http:", "//", "cdn", "/", "seg", ".ts", "?t=1">> }

Secret == <<"secret">>

\* every header a client may send, with the value it sends
InboundPool ==
    ("range" :> {<<"bytes=0-1023">>}) @@
    ("accept" :> {<<"text/html">>}) @@
    ("accept-language" :> {<<"zh-CN">>}) @@
    ("cookie" :> {<<"sid=1">>}) @@
    ("authorization" :> {<<"Bearer ">> \o Secret, <<"Bearer ">> \o <<"wrong">>})

\* all header maps over a pool: a subset of the names, one value for each
HeaderMaps(pool) ==
    UNION { [S -> UNION {pool[n] : n \in S}] : S \in SUBSET Keys(pool) }

WellFormed(pool, h) == \A n \in Keys(h) : h[n] \in pool[n]

InboundHeaders == {h \in HeaderMaps(InboundPool) : WellFormed(InboundPool, h)}

\* upstream replies
Statuses == {200, 206, 404, 502}

OriginPool ==
    ("content-type" :> {<<"application/", "x-", "mpegurl">>, <<"text/plain">>}) @@
    ("content-length" :> {<<"100">>}) @@
    ("content-range" :> {<<"bytes 0-1023/4096">>}) @@
    ("content-encoding" :> {<<"gzip">>}) @@
    ("access-control-allow-origin" :> {<<"https://evil">>}) @@
    ("access-control-allow-private-network" :> {<<"true">>})

OriginHeaders == {h \in HeaderMaps(OriginPool) : WellFormed(OriginPool, h)}

OriginBody == <<"origin-body">>

\* the module-level tables as the module's top level leaves them
SharedTables == [CORS_HEADERS |-> CORS_HEADERS, EXCLUDE_HEADERS |-> EXCLUDE_HEADERS]

\* Host headers other than the proxy's own name: none at all, and one that is
\* not a host name
OddHosts == {<<>>, <<"a b">>}

\* the most 'data' events a buffered playlist arrives in
MaxChunks == 2

----------------------------------------------------------------------------
(* Initial state: a request has arrived, nothing has been done yet         *)

Init ==
    /\ variant \in {"workers", "node"}
    /\ password \in IF variant = "node" THEN {<<>>, Secret} ELSE {<<>>}
    /\ req \in [method : Methods, path : Paths, target : Targets,
                headers : InboundHeaders, host : {<<"proxy">>}]
               \cup [method : Methods, path : Paths, target : Targets,
                     headers : {h \in InboundHeaders : Keys(h) = {}},
                     host : IF variant = "node" THEN OddHosts ELSE {}]
    /\ pc = "received"
    /\ upReq = NoReq
    /\ upState = "none"
    /\ upRes = NoRes
    /\ timer = "unset"
    /\ chunks = NoChunks
    /\ resHead = NoRes
    /\ resBody = <<>>
    /\ resEnded = FALSE
    /\ rw = NoRewrite
    /\ tables = SharedTables
    /\ conns = <<>>
    /\ SwAbsent
    /\ TmdbAbsent

----------------------------------------------------------------------------
(* Responses                                                               *)

\* the response is written and completed in one go (new Response(...);
\* res.writeHead(...); res.end(...))
Respond(status, headers, body) ==
    /\ resHead' = [status |-> status, headers |-> headers]
    /\ resBody' = body
    /\ resEnded' = TRUE
    /\ pc' = "done"

getHelpPage(origin) == <<"help-page:">> \o origin

\* Workers: new Response(JSON.stringify({ error }), { status, headers })
errorResponseBody(error) == <<"{\"error\":\"">> \o error \o <<"\"}">>

errorResponseHeaders ==
    Wire(HeadersOf(ObjSpread(("Content-Type" :> <<"application/json; charset=utf-8">>),
                             CORS_HEADERS)))

errorResponse(error, status) ==
    Respond(status, errorResponseHeaders, errorResponseBody(error))

HelpHeaders == ObjSpread(("Content-Type" :> <<"text/html; charset=utf-8">>), CORS_HEADERS)

----------------------------------------------------------------------------
(* Upstream request headers                                                *)

\* Workers: copyHeaders.forEach(h => { val = request.headers.get(h); if (val) headers.set(h, val) })
RECURSIVE CopyInto(_, _, _, _)
CopyInto(h, names, i, inbound) ==
    IF i > Len(names) THEN h
    ELSE CopyInto(IF names[i] \in Keys(inbound)
                  THEN HeadersSet(h, names[i], inbound[names[i]])
                  ELSE h,
                  names, i + 1, inbound)

WorkersUpstreamHeaders(inbound, target) ==
    LET h0 == HeadersSet(EmptyObj, "Referer", URLorigin(target) \o <<"/">>)
        h1 == HeadersSet(h0, "Origin", URLorigin(target))
        h2 == HeadersSet(h1, "User-Agent", UserAgent)
        h3 == CopyInto(h2, copyHeaders, 1, inbound)
        h4 == IF ~HeadersHas(h3, "accept") THEN HeadersSet(h3, "Accept", <<"*/*">>) ELSE h3
    IN Wire(h4)

\* Node: ['range', 'accept', 'accept-language'].forEach(h => {
\*           if (req.headers[h]) proxyOptions.headers[h] = req.headers[h] })
NodeCopyNames == <<"range", "accept", "accept-language">>

RECURSIVE NodeCopyInto(_, _, _, _)
NodeCopyInto(o, names, i, inbound) ==
    IF i > Len(names) THEN o
    ELSE NodeCopyInto(IF names[i] \in Keys(inbound)
                      THEN OrdSet(o, names[i], inbound[names[i]])
                      ELSE o,
                      names, i + 1, inbound)

\* if (!proxyOptions.headers['Accept']) proxyOptions.headers['Accept'] = '*/*'
NodeDefaultAccept(o) ==
    IF ~OrdHas(o, "Accept") THEN OrdSet(o, "Accept", <<"*/*">>) ELSE o

NodeUpstreamHeaders(inbound, target) ==
    LET o0 == OrdSet(<<>>, "Referer", URLorigin(target) \o <<"/">>)
        o1 == OrdSet(o0, "Origin", URLorigin(target))
        o2 == OrdSet(o1, "User-Agent", UserAgent)
        o3 == NodeCopyInto(o2, NodeCopyNames, 1, inbound)
        o4 == NodeDefaultAccept(o3)
    IN ClientRequestHeaders(o4)

----------------------------------------------------------------------------
(* Workers: handleRequest and handleProxyRequest up to the fetch           *)

\* the branches of handleRequest that answer without a target
handleRequest ==
    /\ variant = "workers"
    /\ pc = "received"
    /\ \/ /\ req.method = "OPTIONS"
          /\ Respond(204, Wire(HeadersOf(CORS_HEADERS)), <<>>)
       \/ /\ req.method # "OPTIONS"
          /\ req.path = "/health"
          /\ Respond(200, Wire(HeadersOf(CORS_HEADERS)), <<"OK">>)
       \/ /\ req.method # "OPTIONS"
          /\ req.path # "/health"
          /\ req.target = <<>>
          /\ Respond(200, Wire(HeadersOf(HelpHeaders)), getHelpPage(ProxyOrigin))
    /\ UNCHANGED <<aux, variant, password, req, upReq, upState, upRes, timer, chunks>>

\* handleProxyRequest is entered with a non-empty url parameter
WorkersProxies ==
    /\ variant = "workers"
    /\ pc = "received"
    /\ req.method # "OPTIONS"
    /\ req.path # "/health"
    /\ req.target # <<>>

\* the three validations at the top of handleProxyRequest
WorkersValidationError(target, currentOrigin) ==
    IF StartsWith(target, currentOrigin) THEN <<"Loop detected: self-fetch blocked">>
    ELSE IF ~MatchesHttpScheme(target) THEN <<"Invalid target URL">>
    ELSE IF ~URLParses(target) THEN <<"Invalid URL format">>
    ELSE <<>>

handleProxyRequestReject ==
    /\ WorkersProxies
    /\ WorkersValidationError(req.target, ProxyOrigin) # <<>>
    /\ errorResponse(WorkersValidationError(req.target, ProxyOrigin), 400)
    /\ UNCHANGED <<aux, variant, password, req, upReq, upState, upRes, timer, chunks>>

\* the request is built, the timer is armed, the fetch is issued
handleProxyRequestFetch ==
    /\ WorkersProxies
    /\ WorkersValidationError(req.target, ProxyOrigin) = <<>>
    /\ upReq' = [method |-> req.method, url |-> req.target,
                 headers |-> WorkersUpstreamHeaders(req.headers, req.target)]
    /\ upState' = "inflight"
    /\ timer' = "armed"
    /\ pc' = "fetching"
    /\ UNCHANGED <<aux, variant, password, req, upRes, chunks, resHead, resBody, resEnded>>

----------------------------------------------------------------------------
(* Node: the http.createServer handler up to protocol.request              *)

\* mutant: only the presence of an Authorization header is tested
NodeAuthFails_PresenceOnly ==
    /\ password # <<>>
    /\ "authorization" \notin Keys(req.headers)

\* if (ACCESS_PASSWORD) { auth = req.headers['authorization'];
\*     if (!auth || auth !== `Bearer ${ACCESS_PASSWORD}`) -> 403 }
NodeAuthFails ==
    /\ password # <<>>
    /\ IF "authorization" \notin Keys(req.headers)
       THEN TRUE
       ELSE req.headers["authorization"] # <<"Bearer ">> \o password

\* OPTIONS, /health, help page, 403: answered before the try block
NodeAnswer ==
    /\ variant = "node"
    /\ pc = "received"
    /\ \/ /\ req.method = "OPTIONS"
          /\ Respond(204, Wire(CORS_HEADERS), <<>>)
       \/ /\ req.method # "OPTIONS"
          /\ ~NodeUrlThrows(req.host)
          /\ req.path = "/health"
          /\ Respond(200, Wire(CORS_HEADERS), <<"OK">>)
       \/ /\ req.method # "OPTIONS"
          /\ ~NodeUrlThrows(req.host)
          /\ req.path # "/health"
          /\ req.target = <<>>
          /\ Respond(200, Wire(HelpHeaders), getHelpPage(NodeBase(req.host)))
       \/ /\ req.method # "OPTIONS"
          /\ ~NodeUrlThrows(req.host)
          /\ req.path # "/health"
          /\ req.target # <<>>
          /\ NodeAuthFails
          /\ Respond(403, Wire(CORS_HEADERS), <<"Unauthorized">>)
    /\ UNCHANGED <<aux, variant, password, req, upReq, upState, upRes, timer, chunks>>

\* const url = new URL(req.url, `http://${req.headers.host}`) stands before the
\* try block of the async handler: when it throws, the handler's promise
\* rejects and nothing is written to res
NodeHandlerThrows ==
    /\ variant = "node"
    /\ pc = "received"
    /\ req.method # "OPTIONS"
    /\ NodeUrlThrows(req.host)
    /\ pc' = "threw"
    /\ UNCHANGED <<aux, variant, password, req, upReq, upState, upRes, timer, chunks,
                   resHead, resBody, resEnded>>

\* mutant: /health is not told apart from the other paths
NodeProxies_HealthProxied ==
    /\ variant = "node"
    /\ pc = "received"
    /\ req.method # "OPTIONS"
    /\ ~NodeUrlThrows(req.host)
    /\ req.target # <<>>
    /\ ~NodeAuthFails

NodeProxies ==
    /\ variant = "node"
    /\ pc = "received"
    /\ req.method # "OPTIONS"
    /\ ~NodeUrlThrows(req.host)
    /\ req.path # "/health"
    /\ req.target # <<>>
    /\ ~NodeAuthFails

\* what the try block throws before a request is issued: new URL(targetUrlParam)
\* throws on an unparsable string; http.request / https.request throws
\* ERR_INVALID_PROTOCOL when the URL's protocol is not the module's own
NodeThrows(target) ==
    IF ~URLParses(target)
    THEN TRUE
    ELSE LET protocol == IF URLprotocol(target) = "https:" THEN "https:" ELSE "http:"
         IN URLprotocol(target) # protocol

\* catch (err) { if (!res.headersSent) { res.writeHead(400, CORS_HEADERS); res.end('Invalid URL') } }
NodeInvalidURL ==
    /\ NodeProxies
    /\ NodeThrows(req.target)
    /\ Respond(400, Wire(CORS_HEADERS), <<"Invalid URL">>)
    /\ UNCHANGED <<aux, variant, password, req, upReq, upState, upRes, timer, chunks>>

\* protocol.request(targetURL, proxyOptions, cb); proxyReq.end() / req.pipe(proxyReq)
NodeRequest ==
    /\ NodeProxies
    /\ ~NodeThrows(req.target)
    /\ upReq' = [method |-> req.method, url |-> req.target,
                 headers |-> NodeUpstreamHeaders(req.headers, req.target)]
    /\ upState' = "inflight"
    /\ timer' = "armed"
    /\ pc' = "fetching"
    /\ UNCHANGED <<aux, variant, password, req, upRes, chunks, resHead, resBody, resEnded>>

----------------------------------------------------------------------------
(* Response headers and the playlist decision                              *)

\* the copy loop: every key whose lower-cased name is not excluded
CopyExcept(o, excluded) ==
    [k \in {x \in Keys(o) : toLowerCase(x) \notin excluded} |-> o[k]]

\* Workers: copy the reply's headers except excludeHeaders, then set CORS_HEADERS
WorkersResponseHeaders(origin) ==
    LET copied == HeadersOf(CopyExcept(origin, excludeHeaders))
    IN ObjSpread(copied, HeadersOf(CORS_HEADERS))

\* mutant: the exclusion test is inverted (only excluded names are copied)
NodeResponseHeaders_Inverted(origin) ==
    ObjSpread(CORS_HEADERS,
              [k \in {x \in Keys(origin) : toLowerCase(x) \in EXCLUDE_HEADERS} |-> origin[k]])

\* Node: { ...CORS_HEADERS }, then responseHeaders[key] = proxyRes.headers[key]
\* for every key not in EXCLUDE_HEADERS
NodeResponseHeaders(origin) ==
    ObjSpread(CORS_HEADERS, CopyExcept(origin, EXCLUDE_HEADERS))

\* response.headers.get('content-type') || ''
ContentTypeOf(origin) ==
    IF "content-type" \in Keys(origin) THEN origin["content-type"] ELSE <<>>

isM3u8(target, origin) ==
    \/ EndsWith(URLpathname(target), ".m3u8")
    \/ Includes(ContentTypeOf(origin), <<"mpegurl">>)
    \/ Includes(ContentTypeOf(origin), <<"x-", "mpegurl">>)

\* Response.ok
ResponseOk(status) == status >= 200 /\ status <= 299

\* Workers: if (isM3u8 && response.ok)
WorkersRewrites(target, res) == isM3u8(target, res.headers) /\ ResponseOk(res.status)

\* Node: if (isM3u8 && proxyRes.statusCode === 200)
NodeRewrites(target, res) == isM3u8(target, res.headers) /\ res.status = 200

PlaylistType == <<"application/vnd.apple.", "mpegurl">>

\* responseHeaders.set('Content-Type', ...); responseHeaders.delete('Content-Length')
WorkersPlaylistHeaders(h) ==
    HeadersDelete(HeadersSet(h, "Content-Type", PlaylistType), "Content-Length")

\* responseHeaders['Content-Type'] = ...; delete responseHeaders['content-length']
NodePlaylistHeaders(o) ==
    ObjDelete(ObjSet(o, "Content-Type", PlaylistType), "content-length")

\* the body rewriteM3u8 returns for the buffered content
Rewritten(content) == <<"rewriteM3u8:">> \o content

----------------------------------------------------------------------------
(* Workers: after the fetch                                                *)

\* await fetch(...) resolves: clearTimeout, build the headers, classify
WorkersFetchResolve ==
    /\ variant = "workers"
    /\ pc = "fetching"
    /\ \E status \in Statuses, headers \in OriginHeaders :
        LET res == [status |-> status, headers |-> headers]
        IN /\ upRes' = res
           /\ upState' = "replied"
           /\ timer' = "cleared"
           /\ IF WorkersRewrites(req.target, res)
              THEN /\ pc' = "reading"               \* await response.text()
                   /\ chunks' = <<>>
                   /\ UNCHANGED <<resHead, resBody, resEnded>>
              ELSE /\ Respond(status, Wire(WorkersResponseHeaders(headers)), OriginBody)
                   /\ UNCHANGED chunks
    /\ UNCHANGED <<aux, variant, password, req, upReq>>

\* response.text() resolves: rewrite and return the playlist
WorkersTextResolve ==
    /\ variant = "workers"
    /\ pc = "reading"
    /\ chunks' = OriginBody
    /\ Respond(upRes.status,
               Wire(WorkersPlaylistHeaders(WorkersResponseHeaders(upRes.headers))),
               Rewritten(OriginBody))
    /\ UNCHANGED <<aux, variant, password, req, upReq, upState, upRes, timer>>

\* response.text() rejects or the rewrite throws: the catch answers 502
WorkersTextReject ==
    /\ variant = "workers"
    /\ pc = "reading"
    /\ upState' = "bodyfailed"
    /\ errorResponse(<<"Proxy Error: ">> \o <<"body">>, 502)
    /\ UNCHANGED <<aux, variant, password, req, upReq, upRes, timer, chunks>>

\* fetch rejects with a network error: the catch answers 502; the timer is
\* not cleared on this path
WorkersFetchReject ==
    /\ variant = "workers"
    /\ pc = "fetching"
    /\ upState' = "failed"
    /\ errorResponse(<<"Proxy Error: ">> \o <<"network">>, 502)
    /\ UNCHANGED <<aux, variant, password, req, upReq, upRes, timer, chunks>>

\* the timer fires while the fetch is pending: controller.abort() cancels the
\* fetch, which rejects with AbortError; the catch answers 502
WorkersTimeout ==
    /\ variant = "workers"
    /\ pc = "fetching"
    /\ timer = "armed"
    /\ timer' = "fired"
    /\ upState' = "aborted"
    /\ errorResponse(<<"Request timeout (20s)">>, 502)
    /\ UNCHANGED <<aux, variant, password, req, upReq, upRes, chunks>>

\* the timer fires after the handler has returned: abort() of a settled fetch
WorkersLateTimer ==
    /\ variant = "workers"
    /\ pc = "done"
    /\ timer = "armed"
    /\ timer' = "fired"
    /\ UNCHANGED <<aux, variant, password, req, pc, upReq, upState, upRes, chunks,
                   resHead, resBody, resEnded>>

----------------------------------------------------------------------------
(* Node: the events of the upstream request                                *)

\* the response callback: build the headers, classify; a playlist is
\* buffered, anything else gets its head written and is piped
NodeResponse ==
    /\ variant = "node"
    /\ pc = "fetching"
    /\ \E status \in Statuses, headers \in OriginHeaders :
        LET res == [status |-> status, headers |-> headers]
        IN /\ upRes' = res
           /\ upState' = "replied"
           /\ IF NodeRewrites(req.target, res)
              THEN /\ pc' = "buffering"
                   /\ chunks' = <<>>
                   /\ UNCHANGED <<resHead, resBody, resEnded>>
              ELSE /\ pc' = "piping"
                   /\ resHead' = [status |-> status,
                                  headers |-> Wire(NodeResponseHeaders(headers))]
                   /\ UNCHANGED <<chunks, resBody, resEnded>>
    /\ UNCHANGED <<aux, variant, password, req, upReq, timer>>

\* proxyRes 'data' while buffering: chunks.push(chunk)
NodeData ==
    /\ variant = "node"
    /\ pc = "buffering"
    /\ Len(chunks) < MaxChunks
    /\ chunks' = Append(chunks, "origin-body")
    /\ UNCHANGED <<aux, variant, password, req, pc, upReq, upState, upRes, timer,
                   resHead, resBody, resEnded>>

\* proxyRes 'end' while buffering: rewrite, force the content type, answer
NodeEnd ==
    /\ variant = "node"
    /\ pc = "buffering"
    /\ Respond(upRes.status,
               Wire(NodePlaylistHeaders(NodeResponseHeaders(upRes.headers))),
               Rewritten(chunks))
    /\ UNCHANGED <<aux, variant, password, req, upReq, upState, upRes, timer, chunks>>

\* proxyRes 'end' while buffering, and the try block throws
\* (Buffer.concat / toString / rewriteM3u8): catch answers 502
NodeEndThrows ==
    /\ variant = "node"
    /\ pc = "buffering"
    /\ upState' = "bodyfailed"
    /\ Respond(502, Wire(CORS_HEADERS), <<"Proxy M3U8 Error">>)
    /\ UNCHANGED <<aux, variant, password, req, upReq, upRes, timer, chunks>>

\* the piped body has been written and the pipe ends the response
NodePipeEnd ==
    /\ variant = "node"
    /\ pc = "piping"
    /\ resBody' = OriginBody
    /\ resEnded' = TRUE
    /\ pc' = "done"
    /\ UNCHANGED <<aux, variant, password, req, upReq, upState, upRes, timer, chunks, resHead>>

\* mutant: the 'error' handler answers 502 without testing res.headersSent
NodeError_Unguarded ==
    /\ variant = "node"
    /\ pc \in {"fetching", "buffering", "piping"}
    /\ upState' = IF upRes = NoRes THEN "failed" ELSE "bodyfailed"
    /\ Respond(502, Wire(CORS_HEADERS), <<"Proxy Error: ">> \o <<"network">>)
    /\ UNCHANGED <<aux, variant, password, req, upReq, upRes, timer, chunks>>

\* proxyReq 'error': answers 502 unless the head has been sent; with the head
\* sent the handler does nothing, and the piped response is never ended
NodeError ==
    /\ variant = "node"
    /\ pc \in {"fetching", "buffering", "piping"}
    /\ upState' = IF upRes = NoRes THEN "failed" ELSE "bodyfailed"
    /\ IF resHead = NoRes
       THEN Respond(502, Wire(CORS_HEADERS), <<"Proxy Error: ">> \o <<"network">>)
       ELSE /\ pc' = "hung"
            /\ UNCHANGED <<resHead, resBody, resEnded>>
    /\ UNCHANGED <<aux, variant, password, req, upReq, upRes, timer, chunks>>

\* the socket has been idle for `timeout` ms: the request emits 'timeout';
\* no listener is registered, so nothing is destroyed and nothing is written
NodeSocketTimeout ==
    /\ variant = "node"
    /\ pc \in {"fetching", "buffering", "piping"}
    /\ timer = "armed"
    /\ timer' = "fired"
    /\ UNCHANGED <<aux, variant, password, req, pc, upReq, upState, upRes, chunks,
                   resHead, resBody, resEnded>>

----------------------------------------------------------------------------

Next ==
    \/ handleRequest
    \/ handleProxyRequestReject
    \/ handleProxyRequestFetch
    \/ WorkersFetchResolve
    \/ WorkersTextResolve
    \/ WorkersTextReject
    \/ WorkersFetchReject
    \/ WorkersTimeout
    \/ WorkersLateTimer
    \/ NodeAnswer
    \/ NodeHandlerThrows
    \/ NodeInvalidURL
    \/ NodeRequest
    \/ NodeResponse
    \/ NodeData
    \/ NodeEnd
    \/ NodeEndThrows
    \/ NodePipeEnd
    \/ NodeError
    \/ NodeSocketTimeout

Spec == Init /\ [][Next]_vars

----------------------------------------------------------------------------
(* rewriteM3u8, line by line.  A playlist is a sequence of tokens: the     *)
(* characters the code looks at ("\n", white space, '#', '"', '/') are     *)
(* tokens of their own, "http:", "https:" and "URI=" are the words its     *)
(* tests are made of, every other token is a word without such characters. *)

Whitespace == {" ", "\t", "\r"}

\* String.prototype.trim
RECURSIVE trimStart(_)
trimStart(s) == IF s # <<>> /\ Head(s) \in Whitespace THEN trimStart(Tail(s)) ELSE s

RECURSIVE trimEnd(_)
trimEnd(s) ==
    IF s # <<>> /\ s[Len(s)] \in Whitespace THEN trimEnd(SubSeq(s, 1, Len(s) - 1)) ELSE s

trim(s) == trimEnd(trimStart(s))

\* s.indexOf(t) as a 1-based position, 0 when t does not occur
indexOf(s, t) ==
    IF \E i \in 1..Len(s) : s[i] = t
    THEN CHOOSE i \in 1..Len(s) : s[i] = t /\ \A j \in 1..(i - 1) : s[j] # t
    ELSE 0

\* s.lastIndexOf(t) as a 1-based position, 0 when t does not occur
lastIndexOf(s, t) ==
    IF \E i \in 1..Len(s) : s[i] = t
    THEN CHOOSE i \in 1..Len(s) : s[i] = t /\ \A j \in (i + 1)..Len(s) : s[j] # t
    ELSE 0

\* content.split('\n')
RECURSIVE split(_)
split(content) ==
    IF indexOf(content, "\n") = 0
    THEN <<content>>
    ELSE <<SubSeq(content, 1, indexOf(content, "\n") - 1)>>
            \o split(SubSeq(content, indexOf(content, "\n") + 1, Len(content)))

\* lines.join('\n')
RECURSIVE join(_)
join(lines) ==
    IF lines = <<>> THEN <<>>
    ELSE IF Len(lines) = 1 THEN lines[1]
    ELSE lines[1] \o <<"\n">> \o join(Tail(lines))

\* encodeURIComponent, token by token: the tokens holding a reserved
\* character are escaped, the words of unreserved characters are kept
EncodeTable ==
    ("http:" :> "http%3A") @@ ("https:" :> "https%3A") @@ ("/" :> "%2F") @@
    ("?" :> "%3F") @@ ("t=1" :> "t%3D1") @@ (" " :> "%20") @@ ("\t" :> "%09") @@
    ("\r" :> "%0D") @@ ("#" :> "%23") @@ ("\"" :> "%22") @@ ("URI=" :> "URI%3D") @@
    ("," :> "%2C") @@ ("/?url=" :> "%2F%3Furl%3D")

encodeURIComponent(s) ==
    [i \in 1..Len(s) |-> IF s[i] \in DOMAIN EncodeTable THEN EncodeTable[s[i]] ELSE s[i]]

\* mutant: the '/' case is tested before the '//' case
resolveUrl_SlashFirst(url, baseOrigin, basePath) ==
    IF StartsWith(url, <<"http:", "/", "/">>) \/ StartsWith(url, <<"https:", "/", "/">>)
    THEN url
    ELSE IF StartsWith(url, <<"/">>)
    THEN baseOrigin \o url
    ELSE IF StartsWith(url, <<"/", "/">>)
    THEN <<"https:">> \o url
    ELSE baseOrigin \o basePath \o url

\* resolveUrl(url, baseOrigin, basePath)
resolveUrl(url, baseOrigin, basePath) ==
    IF StartsWith(url, <<"http:", "/", "/">>) \/ StartsWith(url, <<"https:", "/", "/">>)
    THEN url
    ELSE IF StartsWith(url, <<"/", "/">>)
    THEN <<"https:">> \o url
    ELSE IF StartsWith(url, <<"/">>)
    THEN baseOrigin \o url
    ELSE baseOrigin \o basePath \o url

\* mutant: the absolute URL is spliced in without percent-encoding
proxied_Unencoded(absoluteUrl, proxyOrigin) ==
    proxyOrigin \o <<"/?url=">> \o absoluteUrl

\* `${proxyOrigin}/?url=${encodeURIComponent(absoluteUrl)}`
proxied(absoluteUrl, proxyOrigin) ==
    proxyOrigin \o <<"/?url=">> \o encodeURIComponent(absoluteUrl)

\* the length of the match of /URI="([^"]+)"/ at the start of s, 0 when
\* there is none there
matchAtStart(s) ==
    IF Len(s) >= 4 /\ s[1] = "URI=" /\ s[2] = "\"" /\ s[3] # "\""
          /\ indexOf(SubSeq(s, 3, Len(s)), "\"") # 0
    THEN 2 + indexOf(SubSeq(s, 3, Len(s)), "\"")
    ELSE 0

\* line.replace(/URI="([^"]+)"/g, (match, uri) => `URI="${proxied(resolveUrl(uri))}"`)
RECURSIVE replaceURIs(_, _, _, _)
replaceURIs(line, baseOrigin, basePath, proxyOrigin) ==
    IF line = <<>> THEN <<>>
    ELSE IF matchAtStart(line) # 0
    THEN LET n == matchAtStart(line)
             uri == SubSeq(line, 3, n - 1)
         IN <<"URI=", "\"">>
               \o proxied(resolveUrl(uri, baseOrigin, basePath), proxyOrigin)
               \o <<"\"">>
               \o replaceURIs(SubSeq(line, n + 1, Len(line)), baseOrigin, basePath, proxyOrigin)
    ELSE <<Head(line)>> \o replaceURIs(Tail(line), baseOrigin, basePath, proxyOrigin)

\* mutant: a directive line without a key URI is returned trimmed
rewriteLine_Trimmed(line, baseOrigin, basePath, proxyOrigin) ==
    LET trimmedLine == trim(line)
    IN IF StartsWith(trimmedLine, <<"#">>) \/ trimmedLine = <<>>
       THEN IF Includes(trimmedLine, <<"URI=", "\"">>)
            THEN replaceURIs(line, baseOrigin, basePath, proxyOrigin)
            ELSE trimmedLine
       ELSE proxied(resolveUrl(trimmedLine, baseOrigin, basePath), proxyOrigin)

\* the callback of lines.map(line => ...)
rewriteLine(line, baseOrigin, basePath, proxyOrigin) ==
    LET trimmedLine == trim(line)
    IN IF StartsWith(trimmedLine, <<"#">>) \/ trimmedLine = <<>>
       THEN IF Includes(trimmedLine, <<"URI=", "\"">>)
            THEN replaceURIs(line, baseOrigin, basePath, proxyOrigin)
            ELSE line
       ELSE proxied(resolveUrl(trimmedLine, baseOrigin, basePath), proxyOrigin)

\* baseUrl.pathname.substring(0, baseUrl.pathname.lastIndexOf('/') + 1)
basePathOf(baseUrl) == SubSeq(baseUrl.pathname, 1, lastIndexOf(baseUrl.pathname, "/"))

rewriteM3u8(content, baseUrl, proxyOrigin) ==
    LET lines == split(content)
    IN join([i \in 1..Len(lines) |->
                rewriteLine(lines[i], baseUrl.origin, basePathOf(baseUrl), proxyOrigin)])

\* the most lines of a playlist
MaxLines == 2

\* the lines playlists are made of
LinePool ==
    { <<>>,
      <<" ">>,
      <<"#", "EXTM3U">>,
      <<" ", "#", "EXTINF", ",", "\r">>,
      <<"#", "KEY", "URI=", "\"", "key", "\"", ",", "IV">>,
      <<"#", "MAP", "URI=", "\"", "/", "init", "\"", " ", "URI=", "\"",
        "https:", "/", "/", "cdn", "/", "b", "\"">>,
      <<"#", "KEY", "URI=", "\"", "\"">>,
      <<"#", "KEY", "URI=", "\"", "key">>,
      <<"#", "KEY", "URI=", "key">>,
      <<"seg", ".ts">>,
      <<" ", "seg", ".ts", "\r">>,
      <<"/", "seg", ".ts">>,
      <<"/", "/", "cdn", "/", "seg", ".ts">>,
      <<"http:", "/", "/", "cdn", "/", "seg", ".ts">>,
      <<"https:", "/", "/", "cdn", "/", "seg", ".ts", "?", "t=1">>,
      <<"URI=", "\"", "key", "\"">> }

RECURSIVE LineSeqs(_)
LineSeqs(n) ==
    IF n = 0 THEN {<<>>}
    ELSE {<<>>} \cup {<<l>> \o ls : l \in LinePool, ls \in LineSeqs(n - 1)}

Playlists == {join(ls) : ls \in LineSeqs(MaxLines) \ {<<>>}}

\* new URL(targetUrl) of the playlist: its origin and its pathname
BaseUrls ==
    { [origin |-> <<"https:", "/", "/", "cdn">>, pathname |-> <<"/", "v", "/", "a.m3u8">>],
      [origin |-> <<"http:", "/", "/", "cdn">>, pathname |-> <<"/", "a.m3u8">>] }

RwProxyOrigin == <<"http:", "/", "/", "proxy">>

\* the proxy handlers at rest while rewriteM3u8 is applied on its own
HandlerIdle ==
    /\ password = <<>>
    /\ req = NoReq
    /\ pc = "idle"
    /\ upReq = NoReq
    /\ upState = "none"
    /\ upRes = NoRes
    /\ timer = "unset"
    /\ chunks = NoChunks
    /\ resHead = NoRes
    /\ resBody = <<>>
    /\ resEnded = FALSE

ProxyIdle ==
    /\ variant = "workers"
    /\ HandlerIdle

proxyVars == <<variant, password, req, pc, upReq, upState, upRes, timer, chunks,
               resHead, resBody, resEnded>>

RwInit ==
    /\ ProxyIdle
    /\ tables = SharedTables
    /\ conns = <<>>
    /\ SwAbsent
    /\ TmdbAbsent
    /\ rw \in [content : Playlists, baseUrl : BaseUrls, proxyOrigin : {RwProxyOrigin},
               applied : {0}, result : {<<>>}]

\* const rewritten = rewriteM3u8(content, targetUrl, currentOrigin)
RwApply ==
    /\ rw.applied = 0
    /\ rw' = [rw EXCEPT !.applied = 1,
                        !.result = rewriteM3u8(rw.content, rw.baseUrl, rw.proxyOrigin)]
    /\ UNCHANGED <<tmdbVars, proxyVars, tables, conns, swVars>>

\* the rewritten playlist is fetched through the proxy and rewritten again
RwApplyAgain ==
    /\ rw.applied = 1
    /\ rw' = [rw EXCEPT !.applied = 2,
                        !.result = rewriteM3u8(rw.result, rw.baseUrl, rw.proxyOrigin)]
    /\ UNCHANGED <<tmdbVars, proxyVars, tables, conns, swVars>>

RwNext ==
    \/ RwApply
    \/ RwApplyAgain

RewriteSpec == RwInit /\ [][RwNext]_vars

----------------------------------------------------------------------------
(* Several requests handled concurrently by one server.  Each step below   *)
(* is one synchronous stretch of a handler (up to its next await or        *)
(* callback); the steps of different requests interleave freely.  The      *)
(* handlers read the module-level tables where the code reads them.        *)

\* the most requests in flight together
MaxRequests == 2

ConcTargets == {<<>>, <<"http:", "//", "cdn", "/", "seg", ".ts", "?t=1">>}

ConcReplies ==
    [status : {200, 404},
     headers : {h \in OriginHeaders :
                   Keys(h) \subseteq {"access-control-allow-origin", "content-range"}}]

UpstreamFailed == [failed |-> TRUE]

\* mutant: responseHeaders is the shared object itself, not a copy of it
NodeSpreadAndCopy_Aliased(t, origin) ==
    LET merged == ObjSpread(t.CORS_HEADERS, CopyExcept(origin, t.EXCLUDE_HEADERS))
    IN [tables |-> [t EXCEPT !.CORS_HEADERS = merged], responseHeaders |-> merged]

\* Node: const responseHeaders = { ...CORS_HEADERS }; then every key of
\* proxyRes.headers not in EXCLUDE_HEADERS is assigned into responseHeaders
NodeSpreadAndCopy(t, origin) ==
    [tables |-> t,
     responseHeaders |-> ObjSpread(t.CORS_HEADERS, CopyExcept(origin, t.EXCLUDE_HEADERS))]

\* Workers: responseHeaders = new Headers(); the reply's headers outside the
\* local excludeHeaders are set, then every entry of CORS_HEADERS is set
WorkersCopyAndSet(t, origin) ==
    [tables |-> t,
     responseHeaders |-> ObjSpread(HeadersOf(CopyExcept(origin, excludeHeaders)),
                                   HeadersOf(t.CORS_HEADERS))]

ConcInit ==
    /\ variant \in {"workers", "node"}
    /\ HandlerIdle
    /\ rw = NoRewrite
    /\ SwAbsent
    /\ TmdbAbsent
    /\ tables = SharedTables
    /\ conns \in [1..MaxRequests ->
                    [req : [method : Methods, target : ConcTargets],
                     pc : {"received"}, up : {NoRes}, res : {NoRes}]]

\* OPTIONS and the help page: answered from CORS_HEADERS without an upstream
ConcAnswer(i) ==
    /\ conns[i].pc = "received"
    /\ conns[i].req.method = "OPTIONS" \/ conns[i].req.target = <<>>
    /\ LET head ==
            IF conns[i].req.method = "OPTIONS"
            THEN [status |-> 204,
                  headers |-> IF variant = "node" THEN Wire(tables.CORS_HEADERS)
                              ELSE Wire(HeadersOf(tables.CORS_HEADERS))]
            ELSE [status |-> 200,
                  headers |->
                    LET h == ObjSpread(("Content-Type" :> <<"text/html; charset=utf-8">>),
                                       tables.CORS_HEADERS)
                    IN IF variant = "node" THEN Wire(h) ELSE Wire(HeadersOf(h))]
       IN conns' = [conns EXCEPT ![i].pc = "done", ![i].res = head]
    /\ UNCHANGED <<tmdbVars, proxyVars, rw, tables, swVars>>

\* the upstream request is issued; the handler waits for the reply
ConcFetch(i) ==
    /\ conns[i].pc = "received"
    /\ conns[i].req.method # "OPTIONS"
    /\ conns[i].req.target # <<>>
    /\ conns' = [conns EXCEPT ![i].pc = "fetching"]
    /\ UNCHANGED <<tmdbVars, proxyVars, rw, tables, swVars>>

\* the reply of request i arrives and is relayed
ConcReply(i) ==
    /\ conns[i].pc = "fetching"
    /\ \E reply \in ConcReplies :
        LET built == IF variant = "node"
                     THEN NodeSpreadAndCopy(tables, reply.headers)
                     ELSE WorkersCopyAndSet(tables, reply.headers)
        IN /\ tables' = built.tables
           /\ conns' = [conns EXCEPT
                          ![i].pc = "done",
                          ![i].up = reply,
                          ![i].res = [status |-> reply.status,
                                      headers |-> Wire(built.responseHeaders)]]
    /\ UNCHANGED <<tmdbVars, proxyVars, rw, swVars>>

\* the upstream request of request i fails before a reply: 502
ConcFail(i) ==
    /\ conns[i].pc = "fetching"
    /\ conns' = [conns EXCEPT
                   ![i].pc = "done",
                   ![i].up = UpstreamFailed,
                   ![i].res =
                      [status |-> 502,
                       headers |->
                         IF variant = "node"
                         THEN Wire(tables.CORS_HEADERS)
                         ELSE Wire(HeadersOf(ObjSpread(
                                  ("Content-Type" :> <<"application/json; charset=utf-8">>),
                                  tables.CORS_HEADERS)))]]
    /\ UNCHANGED <<tmdbVars, proxyVars, rw, tables, swVars>>

ConcNext ==
    \/ \E i \in 1..MaxRequests : ConcAnswer(i)
    \/ \E i \in 1..MaxRequests : ConcFetch(i)
    \/ \E i \in 1..MaxRequests : ConcReply(i)
    \/ \E i \in 1..MaxRequests : ConcFail(i)

ConcSpec == ConcInit /\ [][ConcNext]_vars

----------------------------------------------------------------------------
(* The service worker: its fetch listener and its two caches.  A URL is a  *)
(* host and a pathname, both token sequences; a lone "." token followed by *)
(* a "/" token is the text "./" the static-asset test looks for.           *)

STATIC_URLS ==
    { <<".", "/">>,
      <<".", "/", "index", ".html">>,
      <<".", "/", "manifest.json">>,
      <<".", "/", "icon.png">> }

IMAGE_HOSTS == {"image.tmdb.org", "i.tmdb.org"}

\* MAX_IMAGE_CACHE is 500 in the source; the code only compares keys.length
\* with it, and a small value lets the cache run full
MAX_IMAGE_CACHE == 2

\* self.location: the origin the service worker is served from
SelfHost == <<"app">>

\* the requests pages make
SwRequests ==
    { [method |-> "GET",  mode |-> "navigate", host |-> SelfHost, pathname |-> <<"/">>],
      [method |-> "GET",  mode |-> "navigate", host |-> SelfHost,
       pathname |-> <<"/", "missing", ".html">>],
      [method |-> "POST", mode |-> "navigate", host |-> SelfHost,
       pathname |-> <<"/", "index", ".html">>],
      [method |-> "GET",  mode |-> "cors", host |-> SelfHost,
       pathname |-> <<"/", "api", "/", "data">>],
      [method |-> "POST", mode |-> "cors", host |-> SelfHost,
       pathname |-> <<"/", "api", "/", "data">>],
      [method |-> "GET",  mode |-> "no-cors", host |-> SelfHost,
       pathname |-> <<"/", "v1", ".", "/", "icon.png">>],
      [method |-> "GET",  mode |-> "no-cors", host |-> <<"other">>,
       pathname |-> <<"/", "page", ".html">>],
      [method |-> "GET",  mode |-> "cors", host |-> <<"cdn">>,
       pathname |-> <<"/", "v", "/", "a.m3u8">>],
      [method |-> "GET",  mode |-> "cors", host |-> <<"proxy", ".", "workers.dev">>,
       pathname |-> <<"/">>],
      [method |-> "GET",  mode |-> "no-cors", host |-> <<"image.tmdb.org">>,
       pathname |-> <<"/", "t", "/", "poster.jpg">>],
      [method |-> "GET",  mode |-> "cors", host |-> SelfHost,
       pathname |-> <<"/", "api", "/", "tmdb-image", "/", "poster.jpg">>] }

\* event.request.url
UrlOf(r) == <<"https:", "/", "/">> \o r.host \o r.pathname

\* url.origin === self.location.origin
SameOrigin(r) == r.host = SelfHost

\* what a fetch of the request settles to: a reply with a status (an opaque
\* reply to a no-cors cross-origin request shows status 0), or a network
\* failure
NetworkFailure == [failed |-> TRUE]

SwOutcomes(r) ==
    {NetworkFailure} \cup
        IF ~SameOrigin(r) /\ r.mode = "no-cors"
        THEN {[status |-> 0]}
        ELSE {[status |-> 200], [status |-> 404]}

\* the branch of the fetch listener a request falls into, in the order the
\* listener tests them
Strategy(r) ==
    IF \E i \in 1..Len(r.host) : r.host[i] = "workers.dev" THEN "bypass"
    ELSE IF (\E i \in 1..Len(r.host) : r.host[i] \in IMAGE_HOSTS)
             \/ StartsWith(r.pathname, <<"/", "api", "/", "tmdb-image">>) THEN "image"
    ELSE IF r.mode = "navigate" \/ EndsWith(r.pathname, ".html") \/ r.pathname = <<"/">>
         THEN "html"
    ELSE IF \E u \in STATIC_URLS : Includes(UrlOf(r), u) THEN "static"
    ELSE IF ~SameOrigin(r) THEN "bypass"
    ELSE IF r.method # "GET" THEN "bypass"
    ELSE "sameOrigin"

\* cache.put(request, response) on a cache held as a set of entries: it
\* rejects with a TypeError for a request that is not GET, and replaces the
\* entry of the same URL otherwise
CachePut(cache, r, status) ==
    IF r.method # "GET"
    THEN cache
    ELSE {e \in cache : e.url # UrlOf(r)}
            \cup {[url |-> UrlOf(r), method |-> r.method,
                   sameOrigin |-> SameOrigin(r), status |-> status]}

\* cache.match(request): the entry of the same URL, for a GET request
CacheHas(cache, r) == r.method = "GET" /\ \E e \in cache : e.url = UrlOf(r)

CacheMatch(cache, r) == CHOOSE e \in cache : e.url = UrlOf(r)

\* cache.delete(key) on the image cache held as the list of its keys,
\* oldest first
RECURSIVE ImageDelete(_, _)
ImageDelete(keys, k) ==
    IF keys = <<>> THEN <<>>
    ELSE IF Head(keys) = k THEN ImageDelete(Tail(keys), k)
    ELSE <<Head(keys)>> \o ImageDelete(Tail(keys), k)

\* cache.put(request, response.clone()) taking effect: an entry of the same
\* URL is replaced, the new entry is the youngest; a request that is not GET
\* is rejected
ImagePut(keys, r) ==
    IF r.method # "GET"
    THEN keys
    ELSE Append(ImageDelete(keys, UrlOf(r)), UrlOf(r))

\* trimImageCache after keys = await cache.keys(): the keys it goes on to
\* delete, keys[0] .. keys[deleteCount - 1]
deleteList(keys) ==
    IF Len(keys) > MAX_IMAGE_CACHE
    THEN SubSeq(keys, 1, Len(keys) - MAX_IMAGE_CACHE)
    ELSE <<>>

\* the most image stores under way together
MaxStores == 2

\* images stored by earlier runs of the service worker
OldImage(i) == <<"https:", "/", "/", "image.tmdb.org", "/", ToString(i)>>

StoredImages(n) == [i \in 1..n |-> OldImage(i)]

\* a store is under way until both its put and its trim are over
RECURSIVE Unfinished(_)
Unfinished(stores) ==
    IF stores = <<>> THEN <<>>
    ELSE IF Head(stores).put = "done" /\ Head(stores).trim = "done"
    THEN Unfinished(Tail(stores))
    ELSE <<Head(stores)>> \o Unfinished(Tail(stores))

Undefined == [undefined |-> TRUE]

\* the install handler has run: cache.addAll(STATIC_URLS) stored the 200
\* replies of the application's own files
SwInit ==
    /\ variant = "workers"
    /\ HandlerIdle
    /\ TmdbAbsent
    /\ rw = NoRewrite
    /\ tables = SharedTables
    /\ conns = <<>>
    /\ swStatic = {[url |-> <<"https:", "/", "/">> \o SelfHost \o p, method |-> "GET",
                    sameOrigin |-> TRUE, status |-> 200] :
                       p \in {<<"/">>, <<"/", "index", ".html">>}}
    /\ swImages \in {StoredImages(0), StoredImages(MAX_IMAGE_CACHE)}
    /\ swEvent = NoEvent
    /\ swStores = <<>>

\* a fetch event arrives: the listener picks its branch.  Without
\* respondWith the browser handles the request; an image found in the image
\* cache is answered at once; otherwise fetch(event.request) is started
SwFetchEvent ==
    /\ IF swEvent = NoEvent THEN TRUE ELSE swEvent.phase = "done"
    /\ \E r \in SwRequests :
        /\ Strategy(r) = "image" => Len(swStores) < MaxStores
        /\ swEvent' =
            IF Strategy(r) = "bypass"
            THEN [request |-> r, strategy |-> "bypass", phase |-> "done",
                  responded |-> FALSE, response |-> Undefined]
            ELSE IF Strategy(r) = "image"
                    /\ r.method = "GET"
                    /\ \E i \in 1..Len(swImages) : swImages[i] = UrlOf(r)
            THEN [request |-> r, strategy |-> "image", phase |-> "done",
                  responded |-> TRUE, response |-> [status |-> 200, from |-> "cache"]]
            ELSE [request |-> r, strategy |-> Strategy(r), phase |-> "fetching",
                  responded |-> TRUE, response |-> Undefined]
    /\ UNCHANGED <<tmdbVars, proxyVars, rw, tables, conns, swStatic, swImages, swStores>>

\* handleImageRequest after the cache miss: on a 200 reply cache.put and
\* trimImageCache are called, neither awaited, and the reply is returned; a
\* failed fetch is answered with the placeholder image
SwImageSettle ==
    /\ swEvent # NoEvent
    /\ swEvent.strategy = "image"
    /\ swEvent.phase = "fetching"
    /\ \E out \in SwOutcomes(swEvent.request) :
          IF out = NetworkFailure
          THEN /\ swEvent' = [swEvent EXCEPT !.phase = "done",
                                 !.response = [status |-> 200, from |-> "placeholder"]]
               /\ UNCHANGED swStores
          ELSE /\ swEvent' = [swEvent EXCEPT !.phase = "done",
                                 !.response = [status |-> out.status, from |-> "network"]]
               /\ swStores' = IF out.status = 200
                              THEN Append(swStores,
                                          [request |-> swEvent.request, put |-> "pending",
                                           trim |-> "keys", doomed |-> <<>>])
                              ELSE swStores
    /\ UNCHANGED <<tmdbVars, proxyVars, rw, tables, conns, swStatic, swImages>>

\* a cache.put of the image cache takes effect
SwImagePutDone ==
    /\ \E i \in 1..Len(swStores) :
          /\ swStores[i].put = "pending"
          /\ swImages' = ImagePut(swImages, swStores[i].request)
          /\ swStores' = Unfinished([swStores EXCEPT ![i].put = "done"])
    /\ UNCHANGED <<tmdbVars, proxyVars, rw, tables, conns, swStatic, swEvent>>

\* trimImageCache: await cache.keys() resolves with the keys the cache holds
\* at that moment; deleteCount is computed from them
SwTrimKeys ==
    /\ \E i \in 1..Len(swStores) :
          /\ swStores[i].trim = "keys"
          /\ swStores' = Unfinished([swStores EXCEPT
                             ![i].doomed = deleteList(swImages),
                             ![i].trim = IF deleteList(swImages) = <<>>
                                         THEN "done" ELSE "deleting"])
    /\ UNCHANGED <<tmdbVars, proxyVars, rw, tables, conns, swStatic, swImages, swEvent>>

\* trimImageCache: one await cache.delete(keys[i]) of the loop
SwTrimDelete ==
    /\ \E i \in 1..Len(swStores) :
          /\ swStores[i].trim = "deleting"
          /\ swImages' = ImageDelete(swImages, Head(swStores[i].doomed))
          /\ swStores' = Unfinished([swStores EXCEPT
                             ![i].doomed = Tail(swStores[i].doomed),
                             ![i].trim = IF Tail(swStores[i].doomed) = <<>>
                                         THEN "done" ELSE "deleting"])
    /\ UNCHANGED <<tmdbVars, proxyVars, rw, tables, conns, swStatic, swEvent>>

\* HTML, network first: whatever the reply is, a clone of it is put into the
\* static cache; a failed fetch is answered from the caches or with 503
SwHtmlSettle ==
    /\ swEvent # NoEvent
    /\ swEvent.strategy = "html"
    /\ swEvent.phase = "fetching"
    /\ \E out \in SwOutcomes(swEvent.request) :
          IF out = NetworkFailure
          THEN /\ swEvent' = [swEvent EXCEPT !.phase = "done",
                                 !.response =
                                    IF CacheHas(swStatic, swEvent.request)
                                    THEN [status |-> CacheMatch(swStatic, swEvent.request).status,
                                          from |-> "cache"]
                                    ELSE [status |-> 503, from |-> "offline"]]
               /\ UNCHANGED swStatic
          ELSE /\ swEvent' = [swEvent EXCEPT !.phase = "done",
                                 !.response = [status |-> out.status, from |-> "network"]]
               /\ swStatic' = CachePut(swStatic, swEvent.request, out.status)
    /\ UNCHANGED <<tmdbVars, proxyVars, rw, tables, conns, swImages, swStores>>

\* static asset, stale-while-revalidate: the cached entry, if any, is the
\* answer; the fetch runs all the same, a 200 reply is put, and without a
\* cached entry the fetch's own result is the answer (undefined when it failed)
SwStaticSettle ==
    /\ swEvent # NoEvent
    /\ swEvent.strategy = "static"
    /\ swEvent.phase = "fetching"
    /\ \E out \in SwOutcomes(swEvent.request) :
          /\ swEvent' = [swEvent EXCEPT !.phase = "done",
                            !.response =
                               IF CacheHas(swStatic, swEvent.request)
                               THEN [status |-> CacheMatch(swStatic, swEvent.request).status,
                                     from |-> "cache"]
                               ELSE IF out = NetworkFailure THEN Undefined
                               ELSE [status |-> out.status, from |-> "network"]]
          /\ swStatic' = IF out # NetworkFailure /\ out.status = 200
                         THEN CachePut(swStatic, swEvent.request, out.status)
                         ELSE swStatic
    /\ UNCHANGED <<tmdbVars, proxyVars, rw, tables, conns, swImages, swStores>>

\* same-origin GET, network first: a 200 reply is put into the static cache;
\* a failed fetch is answered from the caches or with 503
SwSameOriginSettle ==
    /\ swEvent # NoEvent
    /\ swEvent.strategy = "sameOrigin"
    /\ swEvent.phase = "fetching"
    /\ \E out \in SwOutcomes(swEvent.request) :
          IF out = NetworkFailure
          THEN /\ swEvent' = [swEvent EXCEPT !.phase = "done",
                                 !.response =
                                    IF CacheHas(swStatic, swEvent.request)
                                    THEN [status |-> CacheMatch(swStatic, swEvent.request).status,
                                          from |-> "cache"]
                                    ELSE [status |-> 503, from |-> "offline"]]
               /\ UNCHANGED swStatic
          ELSE /\ swEvent' = [swEvent EXCEPT !.phase = "done",
                                 !.response = [status |-> out.status, from |-> "network"]]
               /\ swStatic' = IF out.status = 200
                              THEN CachePut(swStatic, swEvent.request, out.status)
                              ELSE swStatic
    /\ UNCHANGED <<tmdbVars, proxyVars, rw, tables, conns, swImages, swStores>>

SwNext ==
    \/ SwFetchEvent
    \/ SwImageSettle
    \/ SwImagePutDone
    \/ SwTrimKeys
    \/ SwTrimDelete
    \/ SwHtmlSettle
    \/ SwStaticSettle
    \/ SwSameOriginSettle

SwSpec == SwInit /\ [][SwNext]_vars

----------------------------------------------------------------------------
(* The TMDB proxy: a Workers fetch handler in front of caches.default.     *)
(* Paths are token sequences with "/" a token of its own; the query string *)
(* is left empty.                                                          *)

TmdbMethods == {"GET", "POST", "OPTIONS"}

TmdbPaths ==
    { <<"/", "api", "/", "3", "/", "movie">>,
      <<"/", "t", "/", "p", "/", "a.jpg">>,
      <<"/">>,
      <<"/", "other">> }

\* the request's Accept header, <<>> when it has none
TmdbAccepts == {<<>>, <<"application/json">>, <<"text/html">>}

TmdbRequests == [method : TmdbMethods, pathname : TmdbPaths, accept : TmdbAccepts]

\* the most cache.put calls waiting to take effect
MaxTmdbPuts == 1

\* path.startsWith('/t/')
isImageRequest(path) == StartsWith(path, <<"/", "t", "/">>)

\* the path is one of the two proxied prefixes
TmdbProxied(path) == StartsWith(path, <<"/", "api", "/">>) \/ isImageRequest(path)

\* targetUrl: 'https://api.themoviedb.org' + path.replace('/api', '') for an
\* /api/ path (the first '/api' is the one the path starts with),
\* 'https://image.tmdb.org' + path for a /t/ path
targetUrl(path) ==
    IF StartsWith(path, <<"/", "api", "/">>)
    THEN <<"https://api.themoviedb.org">> \o SubSeq(path, 3, Len(path))
    ELSE <<"https://image.tmdb.org">> \o path

\* new Request(targetUrl, { method: 'GET',
\*     headers: { 'Accept': isImageRequest ? 'image/*' : 'application/json' } })
cacheKey(r) ==
    [url |-> targetUrl(r.pathname),
     method |-> "GET",
     accept |-> IF isImageRequest(r.pathname) THEN <<"image/*">> ELSE <<"application/json">>]

\* cache.match(cacheKey)
TmdbCacheHas(key) == \E e \in tmdbCache : e.key = key

TmdbCacheMatch(key) == CHOOSE e \in tmdbCache : e.key = key

NoEntry == [none |-> TRUE]

TmdbInit ==
    /\ variant = "workers"
    /\ HandlerIdle
    /\ rw = NoRewrite
    /\ tables = SharedTables
    /\ conns = <<>>
    /\ SwAbsent
    /\ tmdbCache = {}
    /\ tmdbPuts = {}
    /\ tmdbEvent = NoEvent

\* a request arrives: OPTIONS, the root path and unknown paths are answered
\* at once; a proxied path is looked up in the cache and answered from it, or
\* the upstream fetch is started
TmdbFetchEvent ==
    /\ IF tmdbEvent = NoEvent THEN TRUE ELSE tmdbEvent.phase = "done"
    /\ \E r \in TmdbRequests :
        /\ (r.method # "OPTIONS" /\ TmdbProxied(r.pathname)) =>
              Cardinality(tmdbPuts) < MaxTmdbPuts
        /\ tmdbEvent' =
            IF r.method = "OPTIONS"
            THEN [request |-> r, phase |-> "done",
                  response |-> [status |-> 200, from |-> "handler", entry |-> NoEntry]]
            ELSE IF ~TmdbProxied(r.pathname)
            THEN [request |-> r, phase |-> "done",
                  response |-> [status |-> IF r.pathname = <<"/">> THEN 200 ELSE 404,
                                from |-> "handler", entry |-> NoEntry]]
            ELSE IF TmdbCacheHas(cacheKey(r))
            THEN [request |-> r, phase |-> "done",
                  response |-> [status |-> TmdbCacheMatch(cacheKey(r)).status,
                                from |-> "cache",
                                entry |-> TmdbCacheMatch(cacheKey(r))]]
            ELSE [request |-> r, phase |-> "fetching",
                  response |-> [status |-> 0, from |-> "none", entry |-> NoEntry]]
    /\ UNCHANGED <<proxyVars, rw, tables, conns, swVars, tmdbCache, tmdbPuts>>

\* the upstream fetch settles: an ok reply is handed to cache.put under the
\* cache key (ctx.waitUntil, not awaited) and every reply is relayed; a fetch
\* that throws is answered 500
TmdbUpstream ==
    /\ tmdbEvent # NoEvent
    /\ tmdbEvent.phase = "fetching"
    /\ \E out \in {[status |-> 200], [status |-> 404], NetworkFailure} :
          IF out = NetworkFailure
          THEN /\ tmdbEvent' = [tmdbEvent EXCEPT !.phase = "done",
                                   !.response = [status |-> 500, from |-> "error",
                                                 entry |-> NoEntry]]
               /\ UNCHANGED tmdbPuts
          ELSE /\ tmdbEvent' = [tmdbEvent EXCEPT !.phase = "done",
                                   !.response = [status |-> out.status, from |-> "upstream",
                                                 entry |-> NoEntry]]
               /\ tmdbPuts' = IF ResponseOk(out.status)
                              THEN tmdbPuts \cup
                                     {[key |-> cacheKey(tmdbEvent.request),
                                       status |-> out.status,
                                       by |-> tmdbEvent.request]}
                              ELSE tmdbPuts
    /\ UNCHANGED <<proxyVars, rw, tables, conns, swVars, tmdbCache>>

\* a cache.put takes effect: the entry under the key is replaced
TmdbPutDone ==
    /\ \E e \in tmdbPuts :
          /\ tmdbCache' = {x \in tmdbCache : x.key # e.key} \cup {e}
          /\ tmdbPuts' = tmdbPuts \ {e}
    /\ UNCHANGED <<proxyVars, rw, tables, conns, swVars, tmdbEvent>>

TmdbNext ==
    \/ TmdbFetchEvent
    \/ TmdbUpstream
    \/ TmdbPutDone

TmdbSpec == TmdbInit /\ [][TmdbNext]_vars

----------------------------------------------------------------------------
(* Vocabulary of the properties                                            *)

\* the request is one the handler treats as a proxy request: not OPTIONS, not
\* /health, and (Node, password configured) carrying the right bearer token
ReachesProxy ==
    /\ req.method # "OPTIONS"
    /\ req.path # "/health"
    /\ variant = "node" => ~NodeAuthFails

Responded == resHead # NoRes

UpstreamIssued == upReq # NoReq

\* the values a header set carries under a name, whatever its letter-casing
ValuesOf(headers, name) ==
    {p[2] : p \in {q \in headers : toLowerCase(q[1]) = toLowerCase(name)}}

NamesOf(headers) == {toLowerCase(p[1]) : p \in headers}

\* header names beginning with access-control- among the names that occur
AccessControlNames ==
    {"access-control-allow-origin", "access-control-allow-methods",
     "access-control-allow-headers", "access-control-expose-headers",
     "access-control-max-age", "access-control-allow-credentials",
     "access-control-allow-private-network"}

StrippedNames ==
    {"content-encoding", "transfer-encoding", "connection", "keep-alive"}
        \cup AccessControlNames

\* the reply was buffered for rewriting
Buffered == chunks # NoChunks

\* the response body is a rewritten playlist
SentRewritten == Responded /\ Len(resBody) >= 1 /\ resBody[1] = "rewriteM3u8:"

\* buffering or rewriting the playlist failed
BufferFailed == Buffered /\ upState = "bodyfailed"

NonHttpURL(t) == URLParses(t) /\ t[1] \notin {"http:", "https:"}

NotAURL(t) == t # <<>> /\ ~URLParses(t)

----------------------------------------------------------------------------
(* Properties                                                              *)

\* C1: a proxy request whose url parameter equals or starts with the proxy's
\* own origin is answered 400 and no upstream request is issued, in the
\* Workers handler and in the Node handler alike.
C1_LoopPrevention ==
    (ReachesProxy /\ StartsWith(req.target, ProxyOrigin)) =>
        /\ ~UpstreamIssued
        /\ Responded => resHead.status = 400

\* C2 (as stated): a url parameter that is a non-http(s) URL, not a URL, or
\* the empty string is answered 400 and no upstream request is issued.
C2_MalformedIs400 ==
    (ReachesProxy /\ (req.target = <<>> \/ NotAURL(req.target) \/ NonHttpURL(req.target))) =>
        /\ ~UpstreamIssued
        /\ Responded => resHead.status = 400

\* C2 (amended): on a proxy request (not OPTIONS, not /health, authorised), a
\* non-empty url parameter that is a non-http(s) URL or not a URL is answered
\* 400 with no upstream request; an empty or absent url parameter is answered
\* with the 200 help page, also with no upstream request.
C2_MalformedAmended ==
    /\ (ReachesProxy /\ (NotAURL(req.target) \/ NonHttpURL(req.target))) =>
          /\ ~UpstreamIssued
          /\ pc = "done" => (Responded /\ resHead.status = 400)
    /\ (ReachesProxy /\ req.target = <<>>) =>
          /\ ~UpstreamIssued
          /\ pc = "done" =>
                (Responded /\ resHead.status = 200 /\ StartsWith(resBody, <<"help-page:">>))

\* C2 witness: the Node handler has answered 400 to an ftp:// target.
C2_Witness ==
    /\ variant = "node"
    /\ ReachesProxy
    /\ NonHttpURL(req.target)
    /\ Responded
    /\ resHead.status = 400

\* C3: when the upstream never responds and the 20 s timer has expired, the
\* upstream request is cancelled and the client has a 502 response with the
\* message 'Request timeout (20s)'.
C3_TimeoutAnswers502 ==
    (timer = "fired" /\ upRes = NoRes /\ upState \in {"inflight", "aborted"}) =>
        /\ upState = "aborted"
        /\ Responded
        /\ resHead.status = 502
        /\ Includes(resBody, <<"Request timeout (20s)">>)

\* C4: the response carries no origin-supplied content-encoding,
\* transfer-encoding, connection or keep-alive header and no origin-supplied
\* header whose name begins with access-control-.
C4_OriginHeadersStripped ==
    (Responded /\ upRes # NoRes) =>
        \A n \in StrippedNames \cap Keys(upRes.headers) :
            upRes.headers[n] \notin ValuesOf(resHead.headers, n)

\* C5: every response the proxy emits carries each of the five CORS headers
\* with its fixed value and with no other value under that name.
C5_CorsAlwaysWins ==
    Responded =>
        \A k \in Keys(CORS_HEADERS) :
            ValuesOf(resHead.headers, k) = {CORS_HEADERS[k]}

\* C5 witness: a reply whose origin sent its own Access-Control-Allow-Origin
\* has been passed through by the Node handler.
C5_Witness ==
    /\ variant = "node"
    /\ Responded
    /\ upRes # NoRes
    /\ "access-control-allow-origin" \in Keys(upRes.headers)
    /\ resHead.status = upRes.status
    /\ pc = "done"

\* C6: an upstream reply is buffered and rewritten if and only if (the target
\* path ends in .m3u8 or the content-type contains mpegurl) and the status is
\* a 2xx; otherwise the body is passed through unmodified.
C6_PlaylistDecision ==
    upRes # NoRes =>
        /\ Buffered <=>
              /\ \/ EndsWith(URLpathname(req.target), ".m3u8")
                 \/ Includes(ContentTypeOf(upRes.headers), <<"mpegurl">>)
              /\ upRes.status >= 200
              /\ upRes.status <= 299
        /\ (~Buffered /\ resEnded) => resBody = OriginBody

\* C7: a rewritten playlist is sent with content type exactly
\* application/vnd.apple.mpegurl (no other value under any casing of the name)
\* and without a Content-Length header.
C7_PlaylistHeaders ==
    SentRewritten =>
        /\ ValuesOf(resHead.headers, "Content-Type") = {PlaylistType}
        /\ ValuesOf(resHead.headers, "Content-Length") = {}

\* the proxy's own 502 has one of the three causes: the upstream could not be
\* reached, the fetch timed out, or buffering / rewriting the playlist failed
Only502Causes ==
    (Responded /\ resHead.status = 502) =>
        \/ upState \in {"failed", "aborted"}
        \/ BufferFailed
        \/ upRes # NoRes /\ upRes.status = 502

C9_OutboundAllowList ==
    UpstreamIssued =>
        /\ NamesOf(upReq.headers) \subseteq
              {toLowerCase(n) : n \in {"Referer", "Origin", "User-Agent", "Range",
                                       "Accept", "Accept-Language"}}
        /\ NamesOf(upReq.headers) \cap {"authorization", "cookie", "host"} = {}

\* C9 witness: an upstream request was issued for a client that sent Cookie
\* and Authorization.
C9_Witness ==
    /\ UpstreamIssued
    /\ {"cookie", "authorization"} \subseteq Keys(req.headers)

\* C10: each of Range, Accept, Accept-Language present on the inbound request
\* is sent upstream with the same value, and the upstream request carries
\* exactly one Accept value: the client's if supplied, */* otherwise.
C10_CopyAndAccept ==
    UpstreamIssued =>
        /\ \A h \in {"range", "accept", "accept-language"} \cap Keys(req.headers) :
              req.headers[h] \in ValuesOf(upReq.headers, h)
        /\ ValuesOf(upReq.headers, "accept") =
              {IF "accept" \in Keys(req.headers) THEN req.headers["accept"] ELSE <<"*/*">>}

\* the request's Authorization header is absent or is not 'Bearer <secret>'
BadAuthorization ==
    IF "authorization" \notin Keys(req.headers)
    THEN TRUE
    ELSE req.headers["authorization"] # <<"Bearer ">> \o Secret

\* C11: Node with a password configured: a request carrying a url parameter
\* (not OPTIONS, not /health) whose Authorization header is absent or differs
\* from 'Bearer <secret>' never causes an upstream request, and the response it
\* gets is 403; an OPTIONS request is answered 204 and a /health request 200
\* whatever the Authorization header is.
C11_SharedSecret ==
    (variant = "node" /\ password = Secret /\ BadAuthorization) =>
        /\ (req.method # "OPTIONS" /\ req.path # "/health" /\ req.target # <<>>) =>
              /\ ~UpstreamIssued
              /\ pc \notin {"fetching", "buffering", "piping", "hung"}
              /\ Responded => (resHead.status = 403 /\ resEnded)
        /\ (req.method = "OPTIONS" /\ Responded) => resHead.status = 204
        /\ (req.method # "OPTIONS" /\ req.path = "/health" /\ Responded) =>
              resHead.status = 200

\* C11 witness: a request with a wrong bearer token and a fetchable target was
\* answered 403 without an upstream request.
C11_Witness ==
    /\ variant = "node"
    /\ password = Secret
    /\ "authorization" \in Keys(req.headers)
    /\ BadAuthorization
    /\ req.method = "GET"
    /\ req.path = "/"
    /\ URLParses(req.target)
    /\ MatchesHttpScheme(req.target)
    /\ Responded
    /\ resHead.status = 403
    /\ ~UpstreamIssued

----------------------------------------------------------------------------
(* Properties of rewriteM3u8                                               *)

\* the lines that went in and the lines that came out
InLines == split(rw.content)

OutLines == split(rw.result)

\* the playlist has been rewritten once
RewrittenOnce == rw # NoRewrite /\ rw.applied = 1

\* the four ordered cases of resolving a reference against the base URL
ResolvedReference(ref, baseUrl) ==
    CASE StartsWith(ref, <<"http:", "/", "/">>) \/ StartsWith(ref, <<"https:", "/", "/">>)
            -> ref
      [] ~(StartsWith(ref, <<"http:", "/", "/">>) \/ StartsWith(ref, <<"https:", "/", "/">>))
            /\ StartsWith(ref, <<"/", "/">>)
            -> <<"https:">> \o ref
      [] ~StartsWith(ref, <<"/", "/">>) /\ StartsWith(ref, <<"/">>)
            -> baseUrl.origin \o ref
      [] OTHER
            -> baseUrl.origin
                  \o SubSeq(baseUrl.pathname, 1, lastIndexOf(baseUrl.pathname, "/"))
                  \o ref

\* proxyOrigin + '/?url=' + percentEncode(A)
ProxyUrlFor(ref) ==
    rw.proxyOrigin \o <<"/?url=">> \o encodeURIComponent(ResolvedReference(ref, rw.baseUrl))

\* C12: each line that is non-empty and whose trimmed form does not start with
\* '#' is replaced wholesale by the proxy URL of its resolved reference, and the
\* output has as many lines as the input.
C12_MediaLines ==
    RewrittenOnce =>
        /\ Len(OutLines) = Len(InLines)
        /\ \A i \in 1..Len(InLines) :
              (InLines[i] # <<>> /\ ~StartsWith(trim(InLines[i]), <<"#">>)) =>
                  OutLines[i] = ProxyUrlFor(trim(InLines[i]))

\* C12 (amended): each line whose trimmed form is non-empty and does not start
\* with '#' is replaced wholesale by the proxy URL of its trimmed reference
\* resolved by the four ordered cases; a line of white space only is output
\* unchanged; the output has as many lines as the input, in the same order.
C12_MediaLinesAmended ==
    RewrittenOnce =>
        /\ Len(OutLines) = Len(InLines)
        /\ \A i \in 1..Len(InLines) :
              /\ (trim(InLines[i]) # <<>> /\ ~StartsWith(trim(InLines[i]), <<"#">>)) =>
                    OutLines[i] = ProxyUrlFor(trim(InLines[i]))
              /\ trim(InLines[i]) = <<>> => OutLines[i] = InLines[i]

\* C12 witness: a two-line playlist with a scheme-relative reference and a
\* white-space-only line has been rewritten.
C12_Witness ==
    /\ RewrittenOnce
    /\ Len(InLines) = 2
    /\ StartsWith(InLines[1], <<"/", "/">>)
    /\ InLines[2] = <<" ">>
    /\ StartsWith(OutLines[1], rw.proxyOrigin \o <<"/?url=", "https%3A">>)
    /\ OutLines[2] = <<" ">>

\* where the quoted value of a URI="v" attribute starting at the head of s
\* ends: the position of its closing quote, 0 when s does not start with such
\* an attribute
AttributeEnd(s) ==
    IF /\ Len(s) >= 4
       /\ SubSeq(s, 1, 2) = <<"URI=", "\"">>
       /\ s[3] # "\""
       /\ \E j \in 4..Len(s) : s[j] = "\""
    THEN CHOOSE j \in 4..Len(s) : s[j] = "\"" /\ \A k \in 3..(j - 1) : s[k] # "\""
    ELSE 0

\* the quoted values of the URI="v" attributes of a line, left to right
RECURSIVE QuotedValues(_)
QuotedValues(s) ==
    IF s = <<>> THEN <<>>
    ELSE IF AttributeEnd(s) # 0
    THEN <<SubSeq(s, 3, AttributeEnd(s) - 1)>>
            \o QuotedValues(SubSeq(s, AttributeEnd(s) + 1, Len(s)))
    ELSE QuotedValues(Tail(s))

\* the line without those quoted values: every character outside them
RECURSIVE OutsideValues(_)
OutsideValues(s) ==
    IF s = <<>> THEN <<>>
    ELSE IF AttributeEnd(s) # 0
    THEN <<"URI=", "\"", "\"">> \o OutsideValues(SubSeq(s, AttributeEnd(s) + 1, Len(s)))
    ELSE <<Head(s)>> \o OutsideValues(Tail(s))

PlainDirective(line) ==
    \/ line = <<>>
    \/ StartsWith(trim(line), <<"#">>) /\ \A k \in 1..Len(line) : line[k] # "URI="

\* C14: every empty line and every '#' line without a URI= attribute is output
\* unchanged; a playlist of such lines only is its own rewriting, and rewriting
\* it a second time gives the same playlist again.
C14_DirectivePassThrough ==
    /\ RewrittenOnce =>
          /\ \A i \in 1..Len(InLines) :
                PlainDirective(InLines[i]) =>
                    (i <= Len(OutLines) /\ OutLines[i] = InLines[i])
          /\ (\A i \in 1..Len(InLines) : PlainDirective(InLines[i])) =>
                rw.result = rw.content
    /\ (rw # NoRewrite /\ rw.applied = 2
          /\ \A i \in 1..Len(InLines) : PlainDirective(InLines[i])) =>
          /\ rw.result = rw.content
          /\ rw.result = rewriteM3u8(rw.content, rw.baseUrl, rw.proxyOrigin)

\* C14 witness: a playlist of an indented directive line and an empty line has
\* been rewritten twice.
C14_Witness ==
    /\ rw # NoRewrite
    /\ rw.applied = 2
    /\ Len(InLines) = 2
    /\ InLines[1] # <<>>
    /\ Head(InLines[1]) \in Whitespace
    /\ StartsWith(trim(InLines[1]), <<"#">>)
    /\ InLines[2] = <<>>
    /\ rw.result = rw.content

----------------------------------------------------------------------------
(* Properties of the handlers: errors, termination, preflight and health   *)

\* the response carries the five CORS headers with their fixed values
CarriesCors ==
    \A k \in Keys(CORS_HEADERS) : ValuesOf(resHead.headers, k) = {CORS_HEADERS[k]}

\* the response is an error response made by the proxy, not a relayed reply
ProxyMadeError ==
    /\ Responded
    /\ resHead.status \in {400, 403, 502}
    /\ upRes = NoRes \/ BufferFailed

\* C15: a failure of the upstream fetch is answered 502 with a message
\* 'Proxy Error: <detail>', a failure while buffering or rewriting a playlist is
\* answered 502, and no exception leaves the handler, whatever the request
\* (a missing or malformed Host header included).
C15_ErrorBoundary ==
    /\ pc # "threw"
    /\ (upState = "failed" /\ upRes = NoRes) =>
          /\ Responded
          /\ resHead.status = 502
          /\ Includes(resBody, <<"Proxy Error: ">>)
    /\ BufferFailed => (Responded /\ resHead.status = 502)

\* C16: every error response the proxy makes itself (400, 403, 502) has a
\* JSON body {"error": <message>}.
C16_StructuredErrors ==
    ProxyMadeError =>
        /\ Len(resBody) >= 3
        /\ Head(resBody) = "{\"error\":\""
        /\ resBody[Len(resBody)] = "\"}"

\* C17: a request never ends up where no step of the handler can complete its
\* response: not after an exception, not after the upstream failed behind a
\* response head already sent, and not once the 20 s bound has elapsed without
\* a reply.
C17_EveryRequestTerminates ==
    /\ pc \notin {"threw", "hung"}
    /\ timer = "fired" => (pc = "done" /\ Responded /\ resEnded)
    /\ pc = "done" => (Responded /\ resEnded)

\* C18: an OPTIONS request is answered 204 with the CORS headers and a /health
\* request 200 'OK' with the CORS headers, in both cases without an upstream
\* request, whatever the url parameter and the Authorization header are.
C18_PreflightAndHealth ==
    /\ (variant \in {"workers", "node"} /\ req.method = "OPTIONS") =>
          /\ ~UpstreamIssued
          /\ pc \in {"received", "done"}
          /\ pc = "done" =>
                (Responded /\ resEnded /\ resHead.status = 204 /\ resBody = <<>> /\ CarriesCors)
    /\ (variant \in {"workers", "node"} /\ req.method # "OPTIONS" /\ req.path = "/health") =>
          /\ ~UpstreamIssued
          /\ pc \in {"received", "done", "threw"}
          /\ pc = "done" =>
                (Responded /\ resEnded /\ resHead.status = 200 /\ resBody = <<"OK">>
                    /\ CarriesCors)

\* C18 witness: the Node server, password configured, has answered 200 'OK' to
\* a /health request that carries a fetchable url parameter and a wrong token.
C18_Witness ==
    /\ variant = "node"
    /\ password = Secret
    /\ BadAuthorization
    /\ "authorization" \in Keys(req.headers)
    /\ req.method = "GET"
    /\ req.path = "/health"
    /\ URLParses(req.target)
    /\ MatchesHttpScheme(req.target)
    /\ Responded
    /\ resHead.status = 200
    /\ resBody = <<"OK">>

----------------------------------------------------------------------------
(* Properties of concurrently handled requests                             *)

\* the response head a request gets when it is the only one the server ever
\* handles: a function of the request and of what its own upstream did
ResponseAlone(r, up) ==
    IF r.method = "OPTIONS"
    THEN [status |-> 204,
          headers |-> IF variant = "node" THEN Wire(CORS_HEADERS)
                      ELSE Wire(HeadersOf(CORS_HEADERS))]
    ELSE IF r.target = <<>>
    THEN [status |-> 200,
          headers |-> IF variant = "node" THEN Wire(HelpHeaders)
                      ELSE Wire(HeadersOf(HelpHeaders))]
    ELSE IF up = UpstreamFailed
    THEN [status |-> 502,
          headers |-> IF variant = "node" THEN Wire(CORS_HEADERS) ELSE errorResponseHeaders]
    ELSE [status |-> up.status,
          headers |-> IF variant = "node" THEN Wire(NodeResponseHeaders(up.headers))
                      ELSE Wire(WorkersResponseHeaders(up.headers))]

\* C19: whatever the interleaving of the requests in flight, the response each
\* request gets is the one it gets alone, a function of the request and of its
\* own upstream reply, and the shared tables CORS_HEADERS and EXCLUDE_HEADERS
\* are as the module's top level left them.
C19_RequestIndependence ==
    /\ tables = SharedTables
    /\ \A i \in DOMAIN conns :
          conns[i].pc = "done" => conns[i].res = ResponseAlone(conns[i].req, conns[i].up)

\* C19 witness: two requests for the same target were in flight together and
\* each has relayed its own reply, the two replies carrying different headers.
C19_Witness ==
    /\ Len(conns) >= 2
    /\ conns[1].pc = "done"
    /\ conns[2].pc = "done"
    /\ conns[1].req = conns[2].req
    /\ conns[1].up \in ConcReplies
    /\ conns[2].up \in ConcReplies
    /\ Keys(conns[1].up.headers) = {"content-range"}
    /\ Keys(conns[2].up.headers) = {"access-control-allow-origin"}
    /\ conns[1].res # conns[2].res

----------------------------------------------------------------------------
(* Properties of the service worker                                        *)

\* C20: every entry of the service worker's static cache is the reply to a
\* same-origin GET request that returned 200.
C20_StaticStorePolicy ==
    \A e \in swStatic : e.sameOrigin /\ e.method = "GET" /\ e.status = 200

\* no cache.put and no trimImageCache of the image cache is under way
ImageStoresSettled == swStores = <<>>

\* C21: once every cache.put and every trimImageCache that was started has
\* completed, the image cache holds at most MAX_IMAGE_CACHE entries.
C21_ImageCacheBound ==
    ImageStoresSettled => Len(swImages) <= MAX_IMAGE_CACHE

\* a step writes the response head: the head differs from what it was
WritesHead == resHead' # resHead

\* a step ends the response or writes to its body
EndsResponse == resEnded' # resEnded \/ resBody' # resBody

C25_TimerHygiene ==
    (variant = "workers" /\ pc = "done") => timer # "armed"

\* C25 on the paths other than a fetch that failed with a non-timeout error
C25_OtherPaths ==
    (variant = "workers" /\ pc = "done" /\ upState # "failed") => timer # "armed"

\* the promise handed to respondWith has resolved
SwAnswered ==
    /\ swEvent # NoEvent
    /\ swEvent.responded
    /\ swEvent.phase = "done"

\* C23: on every fetch event on which the service worker calls respondWith,
\* the promise resolves to a Response, never to undefined, also when the
\* network fetch fails and no cached entry exists.
C23_AlwaysAnswers ==
    SwAnswered => swEvent.response # Undefined

\* C23 on the three strategies other than stale-while-revalidate
C23_OtherStrategies ==
    (SwAnswered /\ swEvent.strategy # "static") => swEvent.response # Undefined

----------------------------------------------------------------------------
(* Properties of the TMDB proxy                                            *)

\* the request has been answered from the cache
ServedFromCache ==
    /\ tmdbEvent # NoEvent
    /\ tmdbEvent.phase = "done"
    /\ tmdbEvent.response.from = "cache"

\* C22: a response is served from the cache only to a request with the same
\* method, the same target URL and the same Accept header as the request that
\* populated the entry, and every entry stored is an ok upstream response.
C22_CacheKey ==
    /\ ServedFromCache =>
          /\ tmdbEvent.response.entry.by.method = tmdbEvent.request.method
          /\ targetUrl(tmdbEvent.response.entry.by.pathname)
                = targetUrl(tmdbEvent.request.pathname)
          /\ tmdbEvent.response.entry.by.accept = tmdbEvent.request.accept
    /\ \A e \in tmdbCache : ResponseOk(e.status)

====
